---- MODULE Spec2Model ----
(***************************************************************************)
(* Sizing, execution and settlement engine of Poly-Oracle.                 *)
(*                                                                         *)
(* The model follows the position/ledger store, the Kelly sizer, the risk  *)
(* manager, the paper and live executors, the market resolver and the      *)
(* feedback loop.  Monetary amounts, share counts and probabilities are    *)
(* Python floats in the source; here they are exact rationals [n, d] in    *)
(* lowest terms, so rounding error is not modelled.                        *)
(***************************************************************************)
EXTENDS Integers, Sequences, FiniteSets, TLC

(***************************************************************************)
(* Exact rational arithmetic (stands for Python float arithmetic).         *)
(***************************************************************************)
RECURSIVE GCD(_, _)
GCD(a, b) ==
    IF b = 0 THEN a ELSE GCD(b, a % b)

Abs(x) ==
    IF x < 0 THEN -x ELSE x

Norm(n, d) ==
    LET g == GCD(Abs(n), d)
    IN  [n |-> n \div g, d |-> d \div g]

R(n, d) ==
    Norm(n, d)

Zero ==
    [n |-> 0, d |-> 1]

One ==
    [n |-> 1, d |-> 1]

LCM(a, b) ==
    (a \div GCD(a, b)) * b

Add(x, y) ==
    LET l == LCM(x.d, y.d)
    IN  Norm(x.n * (l \div x.d) + y.n * (l \div y.d), l)

Neg(x) ==
    [n |-> -x.n, d |-> x.d]

Sub(x, y) ==
    Add(x, Neg(y))

Mul(x, y) ==
    LET g1 == GCD(Abs(x.n), y.d)
        g2 == GCD(Abs(y.n), x.d)
    IN  IF x.n = 0 \/ y.n = 0 THEN Zero
        ELSE [n |-> (x.n \div g1) * (y.n \div g2),
              d |-> (x.d \div g2) * (y.d \div g1)]

Inv(x) ==
    IF x.n > 0 THEN [n |-> x.d, d |-> x.n] ELSE [n |-> -x.d, d |-> -x.n]

Div(x, y) ==
    Mul(x, Inv(y))

Lt(x, y) ==
    LET l == LCM(x.d, y.d)
    IN  x.n * (l \div x.d) < y.n * (l \div y.d)

Le(x, y) ==
    ~Lt(y, x)

RAbs(x) ==
    [n |-> Abs(x.n), d |-> x.d]

RMin(x, y) ==
    IF Lt(y, x) THEN y ELSE x

(***************************************************************************)
(* Bounds of the model.                                                    *)
(***************************************************************************)
MaxTrades == 2

MaxForecasts == 1

(***************************************************************************)
(* Configuration (RiskSettings) and input domains.                         *)
(***************************************************************************)
\* One configuration of RiskSettings: a bankroll of 50 with bets between 1
\* and 10, and a daily-loss limit that a single lost bet reaches.
Markets == {"m1", "m2"}

\* UTC dates: the day the store is seeded and the day after
Days == {0, 1}

\* market.market_type of each market: the category of its forecasts
market_type(m) ==
    IF m = "m1" THEN "crypto" ELSE "politics"

Categories ==
    {market_type(m) : m \in Markets}

\* FeedbackLoop.RECALIBRATION_THRESHOLD
RECALIBRATION_THRESHOLD == 10

\* CalibratorAgent.MIN_SAMPLES_FOR_CALIBRATION
MIN_SAMPLES_FOR_CALIBRATION == 50

initial_bankroll == R(50, 1)

min_bet == R(1, 1)

max_bet == R(10, 1)

max_bankroll_pct == R(1, 10)

kelly_fraction == R(3, 20)

max_daily_loss == R(1, 20)

max_single_market_exposure == R(3, 20)

min_edge == R(8, 100)

min_confidence == R(6, 10)

min_liquidity == 1000

\* calibrated probabilities and market prices offered to the engine
Probs == {R(1, 2)}

Prices == {R(1, 5), R(4, 5)}

Confidences == {R(1, 2), R(3, 4)}

Liquidities == {100000}

NoPosition == [kind |-> "none"]

NoStats == [kind |-> "none"]

NoResult == [kind |-> "none"]

\* no trading cycle is in progress: the engine's operations are called directly
NoRun == [at |-> "none"]

\* run_startup has not been called
NoStartup == [main |-> "none"]

\* a category without an entry in CalibratorAgent._calibration_curves
NoCurve == [kind |-> "none"]

VARIABLES
    paper_trading,  \* Settings.paper_trading: which executor is built
    today,          \* current UTC date
    outcome,        \* resolution oracle: market -> "open" | "YES" | "NO"
    positions,      \* positions table, keyed by market_id
    trades,         \* trades table, in insertion order
    stats,          \* daily_stats table, keyed by date
    forecasts,      \* forecasts table, in insertion order
    venue,          \* orders accepted by the external venue
    pc,             \* "idle" | "resolving": position inside run_resolution_cycle
    pending,        \* resolved_markets still to be processed in this cycle
    cycle,          \* locals of the running run_resolution_cycle call
    ret,            \* what the step just taken returned (or raised)
    realized,       \* sum of the pnl returned by all _resolve_market calls
    closed_pnl,     \* sum of the pnl of all positions zeroed by settlement
    settled,        \* markets whose position a settlement has zeroed
    run,            \* locals of the trading cycle in progress, if any
    max_open_positions,                 \* RiskSettings.max_open_positions
    forecasts_since_last_calibration,   \* FeedbackLoop counter per category
    calibration_curves,                 \* CalibratorAgent curve per category
    last_calibration_sample_count,      \* sample count at the last build
    history_samples,    \* resolved forecasts per category in the history
    startup             \* run_startup: its threads, stop event, store, result

vars == <<paper_trading, today, outcome, positions, trades, stats, forecasts,
          venue, pc, pending, cycle, ret, realized, closed_pnl, settled, run,
          max_open_positions, forecasts_since_last_calibration,
          calibration_curves, last_calibration_sample_count, history_samples,
          startup>>

\* the state of the CalibratorAgent and of the history it reads
calibrator ==
    <<calibration_curves, last_calibration_sample_count, history_samples>>

(***************************************************************************)
(* Store: positions and daily_stats tables.                                *)
(* Column names follow the callers (num_shares, amount_usd).               *)
(***************************************************************************)
get_position(m) ==
    positions[m]

\* variant of the open-position test that accepts a zeroed row
IsOpen_any_row(pos) ==
    pos # NoPosition

IsOpen(pos) ==
    pos # NoPosition /\ pos.num_shares.n > 0

get_open_positions ==
    {m \in Markets : IsOpen(positions[m])}

upsert_position(tab, m, pos) ==
    [tab EXCEPT ![m] = pos]

get_daily_stats(day) ==
    stats[day]

upsert_daily_stats(tab, day, row) ==
    [tab EXCEPT ![day] = row]

RowDays(tab) ==
    {d \in Days : tab[d] # NoStats}

MaxOf(S) ==
    CHOOSE x \in S : \A y \in S : y <= x

get_current_bankroll_of(tab) ==
    IF RowDays(tab) = {} THEN Zero
    ELSE tab[MaxOf(RowDays(tab))].ending_bankroll

get_current_bankroll ==
    get_current_bankroll_of(stats)

SeedRow(b) ==
    [kind |-> "row", starting_bankroll |-> b, ending_bankroll |-> b,
     trades_executed |-> 0, trades_won |-> 0, gross_pnl |-> Zero,
     fees_paid |-> Zero, net_pnl |-> Zero]

(***************************************************************************)
(* MetaAnalyzer.analyze                                                    *)
(***************************************************************************)
analyze(cal, price, confidence, liquidity) ==
    LET raw_edge == Sub(cal, price)
        abs_edge == RAbs(raw_edge)
        actionable == /\ Le(min_edge, abs_edge)
                      /\ Le(min_confidence, confidence)
                      /\ liquidity >= min_liquidity
    IN  [raw_edge |-> raw_edge,
         abs_edge |-> abs_edge,
         direction |-> IF raw_edge.n > 0 THEN "BUY_YES" ELSE "BUY_NO",
         has_actionable_edge |-> actionable,
         recommended_action |-> IF actionable THEN "TRADE" ELSE "SKIP"]

(***************************************************************************)
(* PositionSizer.calculate (inputs strictly inside (0,1), bankroll > 0)    *)
(***************************************************************************)
\* the input validation of PositionSizer.calculate: a ValueError for a
\* bankroll that is not positive or a probability outside (0,1)
calculate_raises(bankroll, our_prob, market_prob) ==
    \/ bankroll.n <= 0
    \/ ~(Lt(Zero, our_prob) /\ Lt(our_prob, One))
    \/ ~(Lt(Zero, market_prob) /\ Lt(market_prob, One))

Kelly(p, market_p) ==
    IF Le(R(99, 100), market_p) THEN Zero
    ELSE LET b == Sub(Inv(market_p), One)
             q == Sub(One, p)
         IN  Div(Sub(Mul(b, p), q), b)

\* variant of calculate that raises a size below min_bet to min_bet
calculate_clipped_to_min(bankroll, our_prob, market_prob, direction) ==
    LET p == IF direction = "BUY_NO" THEN Sub(One, our_prob) ELSE our_prob
        market_p == IF direction = "BUY_NO" THEN Sub(One, market_prob)
                    ELSE market_prob
        kelly == Kelly(p, market_p)
        kelly_frac == Mul(kelly, kelly_fraction)
        raw_amount == Mul(bankroll, kelly_frac)
        max_from_bankroll == Mul(bankroll, max_bankroll_pct)
        capped_amount == RMin(RMin(raw_amount, max_from_bankroll), max_bet)
    IN  IF Lt(capped_amount, min_bet)
        THEN [amount_usd |-> min_bet, num_shares |-> Div(min_bet, market_p),
              kelly_fraction |-> kelly]
        ELSE [amount_usd |-> capped_amount,
              num_shares |-> IF direction = "BUY_YES"
                             THEN Div(capped_amount, market_prob)
                             ELSE Div(capped_amount, Sub(One, market_prob)),
              kelly_fraction |-> kelly]

calculate(bankroll, our_prob, market_prob, direction) ==
    LET p == IF direction = "BUY_NO" THEN Sub(One, our_prob) ELSE our_prob
        market_p == IF direction = "BUY_NO" THEN Sub(One, market_prob)
                    ELSE market_prob
        kelly == Kelly(p, market_p)
        kelly_frac == Mul(kelly, kelly_fraction)
        raw_amount == Mul(bankroll, kelly_frac)
        max_from_bankroll == Mul(bankroll, max_bankroll_pct)
        capped_amount == RMin(RMin(raw_amount, max_from_bankroll), max_bet)
    IN  IF Lt(capped_amount, min_bet)
        THEN [amount_usd |-> Zero, num_shares |-> Zero, kelly_fraction |-> kelly]
        ELSE [amount_usd |-> capped_amount,
              num_shares |-> IF direction = "BUY_YES"
                             THEN Div(capped_amount, market_prob)
                             ELSE Div(capped_amount, Sub(One, market_prob)),
              kelly_fraction |-> kelly]

(***************************************************************************)
(* RiskManager.check: the set of violated limits                           *)
(***************************************************************************)
\* variant of the exposure comparison that also rejects an exposure equal to
\* the limit
exposure_exceeded_at_limit(exposure_pct) ==
    Le(max_single_market_exposure, exposure_pct)

\* exposure_pct > self.max_single_market_exposure
exposure_exceeded(exposure_pct) ==
    Lt(max_single_market_exposure, exposure_pct)

\* variant of check without the position-count limit
check_no_position_limit(market_id, amount_usd, current_positions, daily_pnl, bankroll) ==
    LET daily_loss_pct == IF bankroll.n > 0
                          THEN Div(RAbs(daily_pnl), bankroll) ELSE Zero
        v1 == IF daily_pnl.n < 0 /\ Le(max_daily_loss, daily_loss_pct)
              THEN {"daily_loss"} ELSE {}
        total_exposure == Add(RAbs(positions[market_id].amount_usd),
                              RAbs(amount_usd))
        exposure_pct == IF bankroll.n > 0
                        THEN Div(total_exposure, bankroll) ELSE Zero
        v3 == IF market_id \in current_positions
                 /\ exposure_exceeded(exposure_pct)
              THEN {"single_market_exposure"} ELSE {}
    IN  v1 \cup v3

check(market_id, amount_usd, current_positions, daily_pnl, bankroll) ==
    LET daily_loss_pct == IF bankroll.n > 0
                          THEN Div(RAbs(daily_pnl), bankroll) ELSE Zero
        v1 == IF daily_pnl.n < 0 /\ Le(max_daily_loss, daily_loss_pct)
              THEN {"daily_loss"} ELSE {}
        v2 == IF Cardinality(current_positions) >= max_open_positions
              THEN {"max_open_positions"} ELSE {}
        total_exposure == Add(RAbs(positions[market_id].amount_usd),
                              RAbs(amount_usd))
        exposure_pct == IF bankroll.n > 0
                        THEN Div(total_exposure, bankroll) ELSE Zero
        v3 == IF market_id \in current_positions
                 /\ exposure_exceeded(exposure_pct)
              THEN {"single_market_exposure"} ELSE {}
    IN  v1 \cup v2 \cup v3

(***************************************************************************)
(* FeedbackLoop.process_resolution on the forecasts table                  *)
(***************************************************************************)
Null ==
    [n |-> -1, d |-> 1]

ForecastsOf(fc, m) ==
    {i \in 1 .. Len(fc) : fc[i].market_id = m}

get_unresolved_forecasts ==
    {forecasts[i].market_id : i \in {j \in 1 .. Len(forecasts) : ~forecasts[j].resolved}}

Brier(prob, outcome_int) ==
    LET diff == Sub(prob, R(outcome_int, 1))
    IN  Mul(diff, diff)

process_resolution(fc, m, yes) ==
    IF ForecastsOf(fc, m) = {} THEN fc
    ELSE LET latest == fc[MaxOf(ForecastsOf(fc, m))]
             outcome_int == IF yes THEN 1 ELSE 0
             brier_score_calibrated == Brier(latest.calibrated_probability, outcome_int)
         IN  [i \in 1 .. Len(fc) |->
                 IF fc[i].market_id = m
                 THEN [fc[i] EXCEPT !.resolved = TRUE,
                                    !.outcome = outcome_int,
                                    !.brier_score = brier_score_calibrated]
                 ELSE fc[i]]

\* variant of the counter that is never reset
count_resolution_no_reset(cnt, fc, m) ==
    IF ForecastsOf(fc, m) = {} THEN cnt
    ELSE LET category == fc[MaxOf(ForecastsOf(fc, m))].market_type
         IN  [cnt EXCEPT ![category] = cnt[category] + 1]

\* the counter of process_resolution: one more resolution in the category of
\* the forecast that was found, back to zero at the threshold
count_resolution(cnt, fc, m) ==
    IF ForecastsOf(fc, m) = {} THEN cnt
    ELSE LET category == fc[MaxOf(ForecastsOf(fc, m))].market_type
             count == cnt[category] + 1
         IN  [cnt EXCEPT ![category] =
                             IF count >= RECALIBRATION_THRESHOLD THEN 0 ELSE count]

\* variant of process_resolution that raises when no forecast is found
resolution_result_raising(cnt, fc, m, yes) ==
    IF ForecastsOf(fc, m) = {}
    THEN [kind |-> "raised"]
    ELSE LET latest == fc[MaxOf(ForecastsOf(fc, m))]
         IN  [kind |-> "resolution", market |-> m, success |-> TRUE,
              category |-> latest.market_type,
              outcome |-> yes,
              brier_score_calibrated |->
                  Brier(latest.calibrated_probability, IF yes THEN 1 ELSE 0),
              recalibration_due |->
                  cnt[latest.market_type] + 1 >= RECALIBRATION_THRESHOLD]

\* what process_resolution returns; recalibration_due stands for the
\* "recalibration recommended" line it logs when the threshold is reached
resolution_result(cnt, fc, m, yes) ==
    IF ForecastsOf(fc, m) = {}
    THEN [kind |-> "resolution", market |-> m, success |-> FALSE,
          error |-> "Forecast not found"]
    ELSE LET latest == fc[MaxOf(ForecastsOf(fc, m))]
         IN  [kind |-> "resolution", market |-> m, success |-> TRUE,
              category |-> latest.market_type,
              outcome |-> yes,
              brier_score_calibrated |->
                  Brier(latest.calibrated_probability, IF yes THEN 1 ELSE 0),
              recalibration_due |->
                  cnt[latest.market_type] + 1 >= RECALIBRATION_THRESHOLD]

(***************************************************************************)
(* Executors                                                               *)
(***************************************************************************)
RowGet(row, key, default) ==
    IF key \in DOMAIN row THEN row[key] ELSE default

DailyPnl ==
    IF get_daily_stats(today) # NoStats
    THEN RowGet(get_daily_stats(today), "realized_pnl", Zero)
    ELSE Zero

\* variant of the rejection that reports success
Rejected_as_success(violations) ==
    [kind |-> "result", success |-> TRUE, trade_id |-> 0,
     message |-> "Risk check failed: ", violations |-> violations]

Rejected(violations) ==
    [kind |-> "result", success |-> FALSE, trade_id |-> 0,
     message |-> "Risk check failed: ", violations |-> violations]

Failure(msg) ==
    [kind |-> "result", success |-> FALSE, trade_id |-> 0,
     message |-> msg, violations |-> {}]

Success(trade_id, msg) ==
    [kind |-> "result", success |-> TRUE, trade_id |-> trade_id,
     message |-> msg, violations |-> {}]

\* variant of the null return that has run the risk check first
ReturnedNone_after_risk(invoked) ==
    [kind |-> "null", invoked |-> invoked \cup {"risk"}]

\* execute returns None; invoked names the collaborators (sizer, risk) it
\* has called before returning
ReturnedNone(invoked) ==
    [kind |-> "null", invoked |-> invoked]

Raised ==
    [kind |-> "raised"]

TradeRow(m, direction, size, price, status) ==
    [market_id |-> m, direction |-> direction, amount_usd |-> size.amount_usd,
     num_shares |-> size.num_shares, entry_price |-> price, status |-> status]

UnrealizedPnl(direction, price, avg, shares) ==
    IF direction = "BUY_YES" THEN Mul(Sub(price, avg), shares)
    ELSE Mul(Sub(avg, price), shares)

\* variant of AddedPosition that enters the whole position at the new price
AddedPosition_at_new_price(existing, direction, size, price) ==
    LET new_shares == Add(existing.num_shares, size.num_shares)
        new_amount == Add(existing.amount_usd, size.amount_usd)
        new_avg_price == price
    IN  [kind |-> "position", direction |-> direction,
         num_shares |-> new_shares, amount_usd |-> new_amount,
         avg_entry_price |-> new_avg_price, current_price |-> price,
         unrealized_pnl |-> UnrealizedPnl(direction, price, new_avg_price, new_shares)]

AddedPosition(existing, direction, size, price) ==
    LET new_shares == Add(existing.num_shares, size.num_shares)
        new_amount == Add(existing.amount_usd, size.amount_usd)
        new_avg_price == IF new_shares.n > 0 THEN Div(new_amount, new_shares)
                         ELSE price
    IN  [kind |-> "position", direction |-> direction,
         num_shares |-> new_shares, amount_usd |-> new_amount,
         avg_entry_price |-> new_avg_price, current_price |-> price,
         unrealized_pnl |-> UnrealizedPnl(direction, price, new_avg_price, new_shares)]

NewPosition(direction, size, price) ==
    [kind |-> "position", direction |-> direction,
     num_shares |-> size.num_shares, amount_usd |-> size.amount_usd,
     avg_entry_price |-> price, current_price |-> price,
     unrealized_pnl |-> Zero]

\* PaperTradingExecutor.execute
PaperExecuteBody(m, cal, price, confidence, liquidity) ==
    /\ paper_trading
    /\ LET edge == analyze(cal, price, confidence, liquidity)
           bankroll == get_current_bankroll
           size == calculate(bankroll, cal, price, edge.direction)
           current_positions == get_open_positions
           violations == check(m, size.amount_usd, current_positions,
                               DailyPnl, bankroll)
       IN  IF edge.recommended_action = "SKIP"
           THEN /\ ret' = ReturnedNone({})
                /\ UNCHANGED <<trades, positions>>
           ELSE IF calculate_raises(bankroll, cal, price)
           THEN /\ ret' = Raised
                /\ UNCHANGED <<trades, positions>>
           ELSE IF size.amount_usd.n = 0
           THEN /\ ret' = ReturnedNone({"sizer"})
                /\ UNCHANGED <<trades, positions>>
           ELSE IF violations # {}
           THEN /\ ret' = Rejected(violations)
                /\ UNCHANGED <<trades, positions>>
           ELSE /\ Len(trades) < MaxTrades
                /\ trades' = Append(trades,
                                    TradeRow(m, edge.direction, size, price, "FILLED"))
                /\ positions' = upsert_position(positions, m,
                                    IF m \in current_positions
                                    THEN AddedPosition(positions[m], edge.direction,
                                                       size, price)
                                    ELSE NewPosition(edge.direction, size, price))
                /\ ret' = Success(Len(trades) + 1, "Trade executed successfully")
    /\ UNCHANGED <<run, paper_trading, max_open_positions, startup, calibrator,
                   forecasts_since_last_calibration, today, outcome, stats, forecasts, venue, pc,
                   pending, cycle, realized, closed_pnl, settled>>

\* PaperTradingExecutor.execute called while no resolution cycle is under way
PaperExecute(m, cal, price, confidence, liquidity) ==
    /\ pc = "idle"
    /\ PaperExecuteBody(m, cal, price, confidence, liquidity)

\* what happens once LiveTradingExecutor.execute has passed the risk check:
\* the CLOB client cannot be built, the market has no token id for the side,
\* the venue refuses the order, or the venue accepts it; any other reply
\* stands for an accepted order whose insert_trade raises
LiveReplies ==
    {"no_credentials", "no_token_id", "order_refused", "order_accepted"}

\* LiveTradingExecutor.execute
LiveExecuteBody(m, cal, price, confidence, liquidity, reply) ==
    /\ pc = "idle"
    /\ ~paper_trading
    /\ LET edge == analyze(cal, price, confidence, liquidity)
           bankroll == get_current_bankroll
           size == calculate(bankroll, cal, price, edge.direction)
           current_positions == get_open_positions
           violations == check(m, size.amount_usd, current_positions,
                               DailyPnl, bankroll)
       IN  IF edge.recommended_action = "SKIP"
           THEN /\ reply \in LiveReplies
                /\ ret' = ReturnedNone({})
                /\ UNCHANGED <<trades, venue>>
           ELSE IF calculate_raises(bankroll, cal, price)
           THEN /\ reply \in LiveReplies
                /\ ret' = Raised
                /\ UNCHANGED <<trades, venue>>
           ELSE IF size.amount_usd.n = 0
           THEN /\ reply \in LiveReplies
                /\ ret' = ReturnedNone({"sizer"})
                /\ UNCHANGED <<trades, venue>>
           ELSE IF violations # {}
           THEN /\ reply \in LiveReplies
                /\ ret' = Rejected(violations)
                /\ UNCHANGED <<trades, venue>>
           ELSE IF reply = "no_credentials"
           THEN /\ ret' = Raised
                /\ UNCHANGED <<trades, venue>>
           ELSE IF reply = "no_token_id"
           THEN /\ ret' = Failure("No token_id found")
                /\ UNCHANGED <<trades, venue>>
           ELSE IF reply = "order_refused"
           THEN /\ ret' = Failure("Order submission failed: ")
                /\ UNCHANGED <<trades, venue>>
           ELSE /\ Len(venue) < MaxTrades
                /\ venue' = Append(venue,
                                   [market_id |-> m, size |-> size.num_shares,
                                    price |-> price])
                /\ IF reply = "order_accepted"
                   THEN /\ trades' = Append(trades,
                                       TradeRow(m, edge.direction, size, price, "PENDING"))
                        /\ ret' = Success(Len(trades) + 1, "Live order submitted: ")
                   ELSE /\ trades' = trades
                        /\ ret' = Failure("Order submission failed: ")
    /\ UNCHANGED <<run, paper_trading, max_open_positions, startup, calibrator,
                   forecasts_since_last_calibration, today, outcome, positions, stats, forecasts,
                   pc, pending, cycle, realized, closed_pnl, settled>>

LiveExecute(m, cal, price, confidence, liquidity, reply) ==
    /\ reply \in LiveReplies
    /\ LiveExecuteBody(m, cal, price, confidence, liquidity, reply)

LiveExecuteStoreFails(m, cal, price, confidence, liquidity) ==
    LiveExecuteBody(m, cal, price, confidence, liquidity, "trade_not_stored")

(***************************************************************************)
(* MarketResolver                                                          *)
(***************************************************************************)
\* variant of the payoff with the BUY_NO side inverted
SettlementPnl_no_inverted(position, yes) ==
    IF position.direction = "BUY_YES"
    THEN IF yes THEN Sub(position.num_shares, position.amount_usd)
         ELSE Neg(position.amount_usd)
    ELSE IF yes THEN Sub(position.num_shares, position.amount_usd)
         ELSE Neg(position.amount_usd)

SettlementPnl(position, yes) ==
    IF position.direction = "BUY_YES"
    THEN IF yes THEN Sub(position.num_shares, position.amount_usd)
         ELSE Neg(position.amount_usd)
    ELSE IF ~yes THEN Sub(position.num_shares, position.amount_usd)
         ELSE Neg(position.amount_usd)

\* variant of the zeroing write that keeps the cost basis
ClosedPosition_keeps_cost(position) ==
    [position EXCEPT !.num_shares = Zero, !.unrealized_pnl = Zero]

ClosedPosition(position) ==
    [position EXCEPT !.num_shares = Zero, !.amount_usd = Zero,
                     !.unrealized_pnl = Zero]

\* variant of the stats update that forgets ending_bankroll on an existing row
SettledStats_keeps_ending(row, pnl) ==
    IF row # NoStats
    THEN [row EXCEPT !.net_pnl = Add(row.net_pnl, pnl),
                     !.gross_pnl = Add(row.gross_pnl, pnl),
                     !.trades_won = IF pnl.n > 0 THEN row.trades_won + 1
                                    ELSE row.trades_won]
    ELSE LET current_bankroll == get_current_bankroll
         IN  [kind |-> "row",
              starting_bankroll |-> current_bankroll,
              ending_bankroll |-> Add(current_bankroll, pnl),
              trades_executed |-> 1,
              trades_won |-> IF pnl.n > 0 THEN 1 ELSE 0,
              gross_pnl |-> pnl,
              fees_paid |-> Zero,
              net_pnl |-> pnl]

SettledStats(row, pnl) ==
    IF row # NoStats
    THEN [row EXCEPT !.ending_bankroll = Add(row.ending_bankroll, pnl),
                     !.net_pnl = Add(row.net_pnl, pnl),
                     !.gross_pnl = Add(row.gross_pnl, pnl),
                     !.trades_won = IF pnl.n > 0 THEN row.trades_won + 1
                                    ELSE row.trades_won]
    ELSE LET current_bankroll == get_current_bankroll
         IN  [kind |-> "row",
              starting_bankroll |-> current_bankroll,
              ending_bankroll |-> Add(current_bankroll, pnl),
              trades_executed |-> 1,
              trades_won |-> IF pnl.n > 0 THEN 1 ELSE 0,
              gross_pnl |-> pnl,
              fees_paid |-> Zero,
              net_pnl |-> pnl]

IdleCycle ==
    [checked |-> 0, batch |-> {}, forwarded |-> {}, total_pnl |-> Zero]

CycleReturn(checked, resolved, pnl) ==
    [kind |-> "cycle", checked |-> checked, resolved |-> resolved, pnl |-> pnl]

\* run_resolution_cycle up to the oracle's answer (steps 1 and 2)
StartCycle ==
    /\ pc = "idle"
    /\ LET market_ids == get_open_positions \cup get_unresolved_forecasts
           resolved_markets == {m \in market_ids : outcome[m] # "open"}
       IN  IF resolved_markets = {}
           THEN /\ ret' = CycleReturn(Cardinality(market_ids), 0, Zero)
                /\ UNCHANGED <<pc, pending, cycle>>
           ELSE /\ ret' = NoResult
                /\ pc' = "resolving"
                /\ pending' = resolved_markets
                /\ cycle' = [checked |-> Cardinality(market_ids),
                             batch |-> resolved_markets,
                             forwarded |-> {},
                             total_pnl |-> Zero]
    /\ UNCHANGED <<run, paper_trading, max_open_positions, startup, calibrator,
                   forecasts_since_last_calibration, today, outcome, positions, trades, stats,
                   forecasts, venue, realized, closed_pnl, settled>>

\* variant of _resolve_market that scores forecasts of markets with an open
\* position only
ResolveMarket_positions_only(m) ==
    /\ pc = "resolving"
    /\ m \in pending
    /\ LET position == get_position(m)
           yes == outcome[m] = "YES"
           pnl == IF IsOpen(position) THEN SettlementPnl(position, yes) ELSE Zero
       IN  /\ IF IsOpen(position)
              THEN /\ positions' = upsert_position(positions, m,
                                                   ClosedPosition(position))
                   /\ stats' = upsert_daily_stats(stats, today,
                                    SettledStats(get_daily_stats(today), pnl))
              ELSE UNCHANGED <<positions, stats>>
           /\ IF IsOpen(position)
              THEN /\ forecasts' = process_resolution(forecasts, m, yes)
                   /\ forecasts_since_last_calibration' =
                          count_resolution(forecasts_since_last_calibration,
                                           forecasts, m)
              ELSE UNCHANGED <<forecasts, forecasts_since_last_calibration>>
           /\ ret' = [kind |-> "pnl", market |-> m, pnl |-> pnl]
           /\ realized' = Add(realized, pnl)
           /\ closed_pnl' = Add(closed_pnl, pnl)
           /\ settled' = IF IsOpen(position) THEN settled \cup {m} ELSE settled
           /\ cycle' = [cycle EXCEPT !.total_pnl = Add(cycle.total_pnl, pnl),
                                     !.forwarded = cycle.forwarded \cup {m}]
    /\ pending' = pending \ {m}
    /\ UNCHANGED <<run, paper_trading, max_open_positions, startup, calibrator,
                   today, outcome, trades, venue, pc>>

\* one iteration of step 3: _resolve_market(market_id, outcome)
ResolveMarket(m) ==
    /\ pc = "resolving"
    /\ m \in pending
    /\ LET position == get_position(m)
           yes == outcome[m] = "YES"
           pnl == IF IsOpen(position) THEN SettlementPnl(position, yes) ELSE Zero
       IN  /\ IF IsOpen(position)
              THEN /\ positions' = upsert_position(positions, m,
                                                   ClosedPosition(position))
                   /\ stats' = upsert_daily_stats(stats, today,
                                    SettledStats(get_daily_stats(today), pnl))
              ELSE UNCHANGED <<positions, stats>>
           /\ forecasts' = process_resolution(forecasts, m, yes)
           /\ forecasts_since_last_calibration' =
                  count_resolution(forecasts_since_last_calibration, forecasts, m)
           /\ ret' = [kind |-> "pnl", market |-> m, pnl |-> pnl]
           /\ realized' = Add(realized, pnl)
           /\ closed_pnl' = Add(closed_pnl, pnl)
           /\ settled' = IF IsOpen(position) THEN settled \cup {m} ELSE settled
           /\ cycle' = [cycle EXCEPT !.total_pnl = Add(cycle.total_pnl, pnl),
                                     !.forwarded = cycle.forwarded \cup {m}]
    /\ pending' = pending \ {m}
    /\ UNCHANGED <<run, paper_trading, max_open_positions, startup, calibrator,
                   today, outcome, trades, venue, pc>>

\* the return of run_resolution_cycle after the loop
EndCycle ==
    /\ pc = "resolving"
    /\ pending = {}
    /\ pc' = "idle"
    /\ ret' = CycleReturn(cycle.checked, Cardinality(cycle.batch), cycle.total_pnl)
    /\ cycle' = IdleCycle
    /\ UNCHANGED <<run, paper_trading, max_open_positions, startup, calibrator,
                   forecasts_since_last_calibration, today, outcome, positions, trades, stats,
                   forecasts, venue, pending, realized, closed_pnl, settled>>

\* a store call of _resolve_market raises; nothing in run_resolution_cycle
\* catches it, so the exception ends the cycle
StoreCalls ==
    {"get_position", "upsert_position", "get_daily_stats", "upsert_daily_stats"}

ResolveMarketFails(m, at) ==
    /\ pc = "resolving"
    /\ m \in pending
    /\ LET position == get_position(m)
           yes == outcome[m] = "YES"
       IN  IF at \in {"get_position", "upsert_position"}
           THEN /\ at = "upsert_position" => IsOpen(position)
                /\ UNCHANGED <<positions, closed_pnl, settled>>
           ELSE /\ IsOpen(position)
                /\ positions' = upsert_position(positions, m,
                                                ClosedPosition(position))
                /\ closed_pnl' = Add(closed_pnl, SettlementPnl(position, yes))
                /\ settled' = settled \cup {m}
    /\ pc' = "idle"
    /\ pending' = {}
    /\ ret' = [kind |-> "cycle_raised", market |-> m, batch |-> cycle.batch,
               forwarded |-> cycle.forwarded]
    /\ cycle' = IdleCycle
    /\ UNCHANGED <<run, paper_trading, max_open_positions, startup, calibrator,
                   forecasts_since_last_calibration, today, outcome, trades, stats, forecasts,
                   venue, realized>>

\* the oracle query of step 2 fails: check_resolutions raises, which nothing
\* in run_resolution_cycle catches, or it gives up and answers with no
\* resolved market
OracleFails(raises) ==
    /\ pc = "idle"
    /\ LET market_ids == get_open_positions \cup get_unresolved_forecasts
       IN  /\ market_ids # {}
           /\ ret' = [kind |-> "oracle_failure", raised |-> raises,
                      checked |-> Cardinality(market_ids), resolved |-> 0,
                      pnl |-> Zero]
    /\ UNCHANGED <<run, paper_trading, max_open_positions, startup, calibrator,
                   forecasts_since_last_calibration, today, outcome, positions, trades, stats,
                   forecasts, venue, pc, pending, cycle, realized, closed_pnl,
                   settled>>

(***************************************************************************)
(* Environment: forecasts being recorded, markets resolving, days passing  *)
(***************************************************************************)
\* FeedbackLoop.record_forecast
\* the row record_forecast inserts: not resolved, no outcome, no Brier score
ForecastRecord(m, cal) ==
    [market_id |-> m, market_type |-> market_type(m),
     calibrated_probability |-> cal,
     resolved |-> FALSE, outcome |-> -1, brier_score |-> Null]

RecordForecast(m, cal) ==
    /\ pc = "idle"
    /\ Len(forecasts) < MaxForecasts
    /\ forecasts' = Append(forecasts, ForecastRecord(m, cal))
    /\ ret' = NoResult
    /\ UNCHANGED <<run, paper_trading, max_open_positions, startup, calibrator,
                   forecasts_since_last_calibration, today, outcome, positions, trades, stats,
                   venue, pc, pending, cycle, realized, closed_pnl, settled>>

\* FeedbackLoop.process_resolution called on its own (the manual resolve
\* command, a caller outside the resolution cycle)
ProcessResolution(m, yes) ==
    /\ pc = "idle"
    /\ forecasts' = process_resolution(forecasts, m, yes)
    /\ forecasts_since_last_calibration' =
           count_resolution(forecasts_since_last_calibration, forecasts, m)
    /\ ret' = resolution_result(forecasts_since_last_calibration, forecasts, m, yes)
    /\ UNCHANGED <<run, paper_trading, max_open_positions, startup, calibrator, today,
                   outcome, positions, trades, stats, venue, pc, pending, cycle,
                   realized, closed_pnl, settled>>

\* the venue resolves a market the engine follows; the oracle reports it from
\* the next check_resolutions on
MarketResolves(m, o) ==
    /\ pc = "idle"
    /\ outcome[m] = "open"
    /\ m \in get_open_positions \cup get_unresolved_forecasts
    /\ outcome' = [outcome EXCEPT ![m] = o]
    /\ ret' = NoResult
    /\ UNCHANGED <<run, paper_trading, max_open_positions, startup, calibrator,
                   forecasts_since_last_calibration, today, positions, trades, stats, forecasts,
                   venue, pc, pending, cycle, realized, closed_pnl, settled>>

\* midnight UTC
Tick ==
    /\ today + 1 \in Days
    /\ today' = today + 1
    /\ ret' = NoResult
    /\ UNCHANGED <<run, paper_trading, max_open_positions, startup, calibrator,
                   forecasts_since_last_calibration, outcome, positions, trades, stats, forecasts,
                   venue, pc, pending, cycle, realized, closed_pnl, settled>>

(***************************************************************************)
(* Specifications                                                          *)
(***************************************************************************)
\* a FeedbackLoop and a CalibratorAgent as constructed, over an empty history;
\* both read a category without an entry in their dicts as 0
InitLearning ==
    /\ forecasts_since_last_calibration = [c \in Categories |-> 0]
    /\ calibration_curves = [c \in Categories |-> NoCurve]
    /\ last_calibration_sample_count = [c \in Categories |-> 0]
    /\ history_samples = [c \in Categories |-> 0]

\* RiskSettings.max_open_positions is kept below the number of markets so
\* that the position-count limit is reached.
Init ==
    /\ paper_trading \in BOOLEAN
    /\ max_open_positions = Cardinality(Markets) - 1
    /\ startup = NoStartup
    /\ InitLearning
    /\ today = 0
    /\ outcome = [m \in Markets |-> "open"]
    /\ positions = [m \in Markets |-> NoPosition]
    /\ trades = <<>>
    /\ stats = [d \in Days |-> IF d = 0 THEN SeedRow(initial_bankroll) ELSE NoStats]
    /\ forecasts = <<>>
    /\ venue = <<>>
    /\ pc = "idle"
    /\ pending = {}
    /\ cycle = IdleCycle
    /\ ret = NoResult
    /\ realized = Zero
    /\ closed_pnl = Zero
    /\ settled = {}
    /\ run = NoRun

Next ==
    \/ \E m \in Markets, cal \in Probs, price \in Prices,
          confidence \in Confidences, liquidity \in Liquidities :
          PaperExecute(m, cal, price, confidence, liquidity)
    \/ \E m \in Markets, cal \in Probs, price \in Prices,
          confidence \in Confidences, liquidity \in Liquidities,
          reply \in LiveReplies :
          LiveExecute(m, cal, price, confidence, liquidity, reply)
    \/ StartCycle
    \/ \E m \in Markets : ResolveMarket(m)
    \/ EndCycle
    \/ \E m \in Markets, cal \in Probs : RecordForecast(m, cal)
    \/ \E m \in Markets, o \in {"YES", "NO"} : MarketResolves(m, o)
    \/ Tick

Spec ==
    Init /\ [][Next]_vars

\* the same engine when calls on the store may raise
NextFault ==
    \/ Next
    \/ \E m \in Markets, at \in StoreCalls : ResolveMarketFails(m, at)
    \/ \E raises \in BOOLEAN : OracleFails(raises)
    \/ \E m \in Markets, cal \in Probs, price \in Prices,
          confidence \in Confidences, liquidity \in Liquidities :
          LiveExecuteStoreFails(m, cal, price, confidence, liquidity)

SpecFault ==
    Init /\ [][NextFault]_vars

(***************************************************************************)
(* Trading cycle (run_cycle / _run_cycle / the auto loop): the resolution  *)
(* cycle, then the bankroll read, then forecasts and executes              *)
(***************************************************************************)
NewRun ==
    [at |-> "resolve", resolution |-> "pending", bankroll |-> Null]

\* run_resolution_cycle has just returned its summary
ResolutionReturned ==
    \/ ret.kind = "cycle"
    \/ ret.kind = "oracle_failure" /\ ~ret.raised

\* run_resolution_cycle has just raised
ResolutionRaised ==
    \/ ret.kind = "cycle_raised"
    \/ ret.kind = "oracle_failure" /\ ret.raised

\* phase 1: the steps of run_resolution_cycle, the oracle query failing or not
RunResolution ==
    /\ run.at = "resolve"
    /\ ~ResolutionReturned
    /\ ~ResolutionRaised
    /\ \/ StartCycle
       \/ \E m \in Markets : ResolveMarket(m)
       \/ EndCycle
       \/ \E raises \in BOOLEAN : OracleFails(raises)

\* variant of the bankroll read that does not wait for the resolution cycle
ReadBankroll_early ==
    /\ run.at = "resolve"
    /\ pc = "idle"
    /\ run' = [at |-> "trade", resolution |-> run.resolution,
               bankroll |-> get_current_bankroll]
    /\ ret' = NoResult
    /\ UNCHANGED <<paper_trading, max_open_positions, startup, calibrator,
                   forecasts_since_last_calibration, today, outcome, positions, trades, stats,
                   forecasts, venue, pc, pending, cycle, realized, closed_pnl,
                   settled>>

\* bankroll = sqlite.get_current_bankroll() after the resolution cycle
ReadBankroll ==
    /\ run.at = "resolve"
    /\ pc = "idle"
    /\ ResolutionReturned
    /\ run' = [at |-> "trade", resolution |-> "returned",
               bankroll |-> get_current_bankroll]
    /\ ret' = NoResult
    /\ UNCHANGED <<paper_trading, max_open_positions, startup, calibrator,
                   forecasts_since_last_calibration, today, outcome, positions, trades, stats,
                   forecasts, venue, pc, pending, cycle, realized, closed_pnl,
                   settled>>

\* the resolution cycle raised: the auto loop logs it and goes on to the
\* trades of the cycle (caught = TRUE); run_cycle and _run_cycle let the
\* exception end the trading cycle (caught = FALSE)
ResolutionFailed(caught) ==
    /\ run.at = "resolve"
    /\ ResolutionRaised
    /\ run' = IF caught
              THEN [at |-> "trade", resolution |-> "failed",
                    bankroll |-> get_current_bankroll]
              ELSE NewRun
    /\ ret' = NoResult
    /\ UNCHANGED <<paper_trading, max_open_positions, startup, calibrator,
                   forecasts_since_last_calibration, today, outcome, positions, trades, stats,
                   forecasts, venue, pc, pending, cycle, realized, closed_pnl,
                   settled>>

\* phase 2: the forecasts and the paper executes of the cycle
Trade ==
    /\ run.at = "trade"
    /\ \/ \E m \in Markets, cal \in Probs : RecordForecast(m, cal)
       \/ \E m \in Markets, cal \in Probs, price \in Prices,
             confidence \in Confidences, liquidity \in Liquidities :
             PaperExecute(m, cal, price, confidence, liquidity)

\* the trading cycle is over; the next one starts with its resolution cycle
EndRun ==
    /\ run.at = "trade"
    /\ run' = NewRun
    /\ ret' = NoResult
    /\ UNCHANGED <<paper_trading, max_open_positions, startup, calibrator,
                   forecasts_since_last_calibration, today, outcome, positions, trades, stats,
                   forecasts, venue, pc, pending, cycle, realized, closed_pnl,
                   settled>>

\* markets resolve and days pass while the cycle runs, but not between the
\* return of run_resolution_cycle and the statement after it
World ==
    /\ ~ResolutionReturned
    /\ ~ResolutionRaised
    /\ \/ \E m \in Markets, o \in {"YES", "NO"} : MarketResolves(m, o)
       \/ Tick

InitRun ==
    /\ paper_trading = TRUE
    /\ max_open_positions = Cardinality(Markets) - 1
    /\ startup = NoStartup
    /\ InitLearning
    /\ today = 0
    /\ outcome = [m \in Markets |-> "open"]
    /\ positions = [m \in Markets |-> NoPosition]
    /\ trades = <<>>
    /\ stats = [d \in Days |-> IF d = 0 THEN SeedRow(initial_bankroll) ELSE NoStats]
    /\ forecasts = <<>>
    /\ venue = <<>>
    /\ pc = "idle"
    /\ pending = {}
    /\ cycle = IdleCycle
    /\ ret = NoResult
    /\ realized = Zero
    /\ closed_pnl = Zero
    /\ settled = {}
    /\ run = NewRun

NextRun ==
    \/ RunResolution
    \/ ReadBankroll
    \/ \E caught \in BOOLEAN : ResolutionFailed(caught)
    \/ Trade
    \/ EndRun
    \/ World

SpecRun ==
    InitRun /\ [][NextRun]_vars

(***************************************************************************)
(* Feedback loop on its own: forecasts are recorded and process_resolution *)
(* is called for any market with any outcome, over a forecasts table that  *)
(* earlier record_forecast calls have filled                               *)
(***************************************************************************)
\* forecasts already in the table when the FeedbackLoop is constructed
MaxStored == 2

FeedbackProbs ==
    {R(1, 5), R(1, 2)}

StoredForecasts ==
    UNION {[1 .. n -> {ForecastRecord(m, cal) : m \in Markets, cal \in FeedbackProbs}] :
           n \in 0 .. MaxStored}

InitFeedback ==
    /\ paper_trading = TRUE
    /\ max_open_positions = Cardinality(Markets) - 1
    /\ startup = NoStartup
    /\ InitLearning
    /\ today = 0
    /\ outcome = [m \in Markets |-> "open"]
    /\ positions = [m \in Markets |-> NoPosition]
    /\ trades = <<>>
    /\ stats = [d \in Days |-> IF d = 0 THEN SeedRow(initial_bankroll) ELSE NoStats]
    /\ forecasts \in StoredForecasts
    /\ venue = <<>>
    /\ pc = "idle"
    /\ pending = {}
    /\ cycle = IdleCycle
    /\ ret = NoResult
    /\ realized = Zero
    /\ closed_pnl = Zero
    /\ settled = {}
    /\ run = NoRun

NextFeedback ==
    \/ \E m \in Markets, cal \in FeedbackProbs : RecordForecast(m, cal)
    \/ \E m \in Markets, yes \in BOOLEAN : ProcessResolution(m, yes)

SpecFeedback ==
    InitFeedback /\ [][NextFeedback]_vars

(***************************************************************************)
(* Executors under a position limit that does not bind: both markets may   *)
(* be open at once, so an execute can add to the open position of its      *)
(* market; prices include one whose Kelly size falls below min_bet once    *)
(* the bankroll has shrunk                                                 *)
(***************************************************************************)
ExecPrices ==
    {R(1, 5), R(21, 50), R(4, 5)}

InitExec ==
    /\ paper_trading \in BOOLEAN
    /\ max_open_positions = Cardinality(Markets)
    /\ startup = NoStartup
    /\ InitLearning
    /\ today = 0
    /\ outcome = [m \in Markets |-> "open"]
    /\ positions = [m \in Markets |-> NoPosition]
    /\ trades = <<>>
    /\ stats = [d \in Days |-> IF d = 0 THEN SeedRow(initial_bankroll) ELSE NoStats]
    /\ forecasts = <<>>
    /\ venue = <<>>
    /\ pc = "idle"
    /\ pending = {}
    /\ cycle = IdleCycle
    /\ ret = NoResult
    /\ realized = Zero
    /\ closed_pnl = Zero
    /\ settled = {}
    /\ run = NoRun

NextExec ==
    \/ \E m \in Markets, cal \in Probs, price \in ExecPrices,
          confidence \in Confidences, liquidity \in Liquidities :
          PaperExecute(m, cal, price, confidence, liquidity)
    \/ \E m \in Markets, cal \in Probs, price \in ExecPrices,
          confidence \in Confidences, liquidity \in Liquidities,
          reply \in LiveReplies :
          LiveExecute(m, cal, price, confidence, liquidity, reply)
    \/ StartCycle
    \/ \E m \in Markets : ResolveMarket(m)
    \/ EndCycle
    \/ \E m \in Markets, o \in {"YES", "NO"} : MarketResolves(m, o)

SpecExec ==
    InitExec /\ [][NextExec]_vars

(***************************************************************************)
(* RiskManager.check on its own: the limits, the open positions and the    *)
(* arguments are drawn so that each limit is met exactly, missed and       *)
(* exceeded                                                                *)
(***************************************************************************)
\* the RiskCheck returned for a call, with the arguments of the call
RiskCheck(market_id, amount_usd, daily_pnl, bankroll, violations) ==
    [kind |-> "risk_check", passed |-> violations = {}, violations |-> violations,
     market_id |-> market_id, amount_usd |-> amount_usd,
     daily_pnl |-> daily_pnl, bankroll |-> bankroll]

CheckRisk(market_id, amount_usd, daily_pnl, bankroll) ==
    /\ ret' = RiskCheck(market_id, amount_usd, daily_pnl, bankroll,
                        check(market_id, amount_usd, get_open_positions,
                              daily_pnl, bankroll))
    /\ UNCHANGED <<run, paper_trading, max_open_positions, startup, calibrator,
                   forecasts_since_last_calibration, today, outcome, positions,
                   trades, stats, forecasts, venue, pc, pending, cycle,
                   realized, closed_pnl, settled>>

\* arguments around the limits of a bankroll of 50: 7.5 of exposure on a
\* position of 5, and a loss of 2.5
RiskAmounts ==
    {R(2, 1), R(5, 2), R(3, 1)}

RiskDailyPnls ==
    {R(1, 1), Zero, R(-2, 1), R(-5, 2), R(-3, 1)}

RiskPosition ==
    NewPosition("BUY_YES", [amount_usd |-> R(5, 1), num_shares |-> R(10, 1)], R(1, 2))

InitRisk ==
    /\ paper_trading = TRUE
    /\ max_open_positions \in 1 .. Cardinality(Markets) + 1
    /\ startup = NoStartup
    /\ InitLearning
    /\ today = 0
    /\ outcome = [m \in Markets |-> "open"]
    /\ positions \in [Markets -> {NoPosition, RiskPosition, ClosedPosition(RiskPosition)}]
    /\ trades = <<>>
    /\ stats = [d \in Days |-> IF d = 0 THEN SeedRow(initial_bankroll) ELSE NoStats]
    /\ forecasts = <<>>
    /\ venue = <<>>
    /\ pc = "idle"
    /\ pending = {}
    /\ cycle = IdleCycle
    /\ ret = NoResult
    /\ realized = Zero
    /\ closed_pnl = Zero
    /\ settled = {}
    /\ run = NoRun

NextRisk ==
    \E market_id \in Markets, amount_usd \in RiskAmounts, daily_pnl \in RiskDailyPnls :
        CheckRisk(market_id, amount_usd, daily_pnl, initial_bankroll)

SpecRisk ==
    InitRisk /\ [][NextRisk]_vars

(***************************************************************************)
(* CalibratorAgent.calibrate over a history that grows by resolutions.     *)
(* The history of a category is its number of resolved forecasts; a curve  *)
(* is known by the number of samples it was fitted on.                     *)
(***************************************************************************)
\* resolutions added to a category's history beyond the calibration minimum
MaxNewSamples == 2

\* _build_calibration_curve(historical)
build_calibration_curve(num_samples) ==
    [kind |-> "curve", fitted_on |-> num_samples]

\* variant of the cache test that never drops a cached curve
needs_rebuild_uncached_only(market_type_, num_samples) ==
    calibration_curves[market_type_] = NoCurve

\* market_type not in _calibration_curves or the recorded count differs
needs_rebuild(market_type_, num_samples) ==
    \/ calibration_curves[market_type_] = NoCurve
    \/ last_calibration_sample_count[market_type_] # num_samples

\* _shrink_extremes: a probability above 0.9 or below 0.1 is moved towards
\* 0.5 by 0.1 * (1 - confidence) of its distance from 0.5
shrink_extremes(probability, confidence) ==
    LET shrink_factor == Mul(R(1, 10), Sub(One, confidence))
    IN  IF Lt(R(9, 10), probability)
        THEN Sub(probability, Mul(Sub(probability, R(1, 2)), shrink_factor))
        ELSE IF Lt(probability, R(1, 10))
        THEN Add(probability, Mul(Sub(R(1, 2), probability), shrink_factor))
        ELSE probability

\* raw forecasts and confidences passed to calibrate
RawForecasts ==
    {R(1, 20), R(1, 2), R(19, 20)}

CalibrateConfidences ==
    {R(1, 2), One}

\* values a fitted isotonic curve (y_min = 0.01, y_max = 0.99) may give
CurveValues ==
    {R(1, 100), R(1, 2), R(99, 100)}

\* the CalibratedForecast of a call; rebuilt tells whether the call fitted a
\* curve.  query_fails: the history query raises and is read as no samples.
Calibrate(market_type_, raw_forecast, confidence, query_fails) ==
    /\ LET num_samples == IF query_fails THEN 0 ELSE history_samples[market_type_]
       IN  IF num_samples < MIN_SAMPLES_FOR_CALIBRATION
           THEN /\ ret' = [kind |-> "calibrated", market_type |-> market_type_,
                           raw |-> raw_forecast, confidence |-> confidence,
                           calibrated |-> shrink_extremes(raw_forecast, confidence),
                           calibration_method |-> "identity",
                           historical_samples |-> num_samples, rebuilt |-> FALSE]
                /\ UNCHANGED <<calibration_curves, last_calibration_sample_count>>
           ELSE /\ IF needs_rebuild(market_type_, num_samples)
                   THEN /\ calibration_curves' =
                              [calibration_curves EXCEPT ![market_type_] =
                                   build_calibration_curve(num_samples)]
                        /\ last_calibration_sample_count' =
                              [last_calibration_sample_count EXCEPT
                                   ![market_type_] = num_samples]
                   ELSE UNCHANGED <<calibration_curves,
                                    last_calibration_sample_count>>
                /\ \E fitted \in CurveValues :
                      ret' = [kind |-> "calibrated", market_type |-> market_type_,
                              raw |-> raw_forecast, confidence |-> confidence,
                              calibrated |-> shrink_extremes(fitted, confidence),
                              calibration_method |-> "isotonic_regression",
                              historical_samples |-> num_samples,
                              rebuilt |-> needs_rebuild(market_type_, num_samples)]
    /\ UNCHANGED <<run, paper_trading, max_open_positions, startup, history_samples,
                   forecasts_since_last_calibration, today, outcome, positions,
                   trades, stats, forecasts, venue, pc, pending, cycle,
                   realized, closed_pnl, settled>>

\* a resolution gives one more forecast of the category an outcome
SampleResolved(market_type_) ==
    /\ history_samples[market_type_] < MIN_SAMPLES_FOR_CALIBRATION + MaxNewSamples
    /\ history_samples' = [history_samples EXCEPT ![market_type_] = @ + 1]
    /\ ret' = NoResult
    /\ UNCHANGED <<run, paper_trading, max_open_positions, startup, calibration_curves,
                   last_calibration_sample_count,
                   forecasts_since_last_calibration, today, outcome, positions,
                   trades, stats, forecasts, venue, pc, pending, cycle,
                   realized, closed_pnl, settled>>

InitCalibrator ==
    /\ paper_trading = TRUE
    /\ max_open_positions = Cardinality(Markets) - 1
    /\ startup = NoStartup
    /\ forecasts_since_last_calibration = [c \in Categories |-> 0]
    /\ calibration_curves = [c \in Categories |-> NoCurve]
    /\ last_calibration_sample_count = [c \in Categories |-> 0]
    /\ history_samples \in [Categories -> {MIN_SAMPLES_FOR_CALIBRATION - 1,
                                           MIN_SAMPLES_FOR_CALIBRATION}]
    /\ today = 0
    /\ outcome = [m \in Markets |-> "open"]
    /\ positions = [m \in Markets |-> NoPosition]
    /\ trades = <<>>
    /\ stats = [d \in Days |-> IF d = 0 THEN SeedRow(initial_bankroll) ELSE NoStats]
    /\ forecasts = <<>>
    /\ venue = <<>>
    /\ pc = "idle"
    /\ pending = {}
    /\ cycle = IdleCycle
    /\ ret = NoResult
    /\ realized = Zero
    /\ closed_pnl = Zero
    /\ settled = {}
    /\ run = NoRun

NextCalibrator ==
    \/ \E c \in Categories, raw_forecast \in RawForecasts,
          confidence \in CalibrateConfidences, query_fails \in BOOLEAN :
          Calibrate(c, raw_forecast, confidence, query_fails)
    \/ \E c \in Categories : SampleResolved(c)

SpecCalibrator ==
    InitCalibrator /\ [][NextCalibrator]_vars

(***************************************************************************)
(* PositionSizer.calculate on its own, over bankrolls that meet each cap   *)
(* and probabilities on both sides of the price                            *)
(***************************************************************************)
SizerBankrolls ==
    {R(5, 1), R(50, 1), R(200, 1)}

SizerProbs ==
    {R(1, 10), R(2, 5), R(1, 2), R(9, 10)}

SizerPrices ==
    {R(1, 10), R(2, 5), R(1, 2), R(9, 10), R(199, 200)}

\* the PositionSize returned for a call, with the arguments of the call
Calculate(bankroll, our_prob, market_prob, direction) ==
    /\ ret' = [kind |-> "size", bankroll |-> bankroll, our_prob |-> our_prob,
               market_prob |-> market_prob, direction |-> direction,
               size |-> calculate(bankroll, our_prob, market_prob, direction)]
    /\ UNCHANGED <<run, paper_trading, max_open_positions, startup, calibrator,
                   forecasts_since_last_calibration, today, outcome, positions,
                   trades, stats, forecasts, venue, pc, pending, cycle,
                   realized, closed_pnl, settled>>

NextSizer ==
    \E bankroll \in SizerBankrolls, our_prob \in SizerProbs,
       market_prob \in SizerPrices, direction \in {"BUY_YES", "BUY_NO"} :
        Calculate(bankroll, our_prob, market_prob, direction)

SpecSizer ==
    Init /\ [][NextSizer]_vars

(***************************************************************************)
(* run_startup: the main thread walks the startup pipeline, starts the     *)
(* coordinator thread unless in check mode, registers the signal handlers  *)
(* and joins the coordinator; signals arrive once handlers are registered  *)
(***************************************************************************)
Signals ==
    {"SIGINT", "SIGTERM"}

\* the coordinator's ticks are counted up to this many
MaxTicks == 2

\* the steps of the pipeline in order, and what each may raise
Pipeline ==
    <<"configure", "state_store", "market", "feeds", "coordinator",
      "register_sigint", "register_sigterm", "branch">>

StartupErrors ==
    [configure |-> {[exit_code |-> 2, reason |-> "config_load_failed"],
                    [exit_code |-> 2, reason |-> "settings_validation_failed"]},
     state_store |-> {[exit_code |-> 3, reason |-> "dependency_init_failed"]},
     feeds |-> {[exit_code |-> 3, reason |-> "dependency_init_failed"]}]

StepAfter(step) ==
    Pipeline[(CHOOSE i \in 1 .. Len(Pipeline) : Pipeline[i] = step) + 1]

\* run_startup(check=...) has just been called
NewStartup(check_) ==
    [check |-> check_, main |-> "configure", loop |-> "none",
     stop_event |-> FALSE, handlers |-> {}, fired |-> {}, ticks |-> 0,
     state_store |-> "none", context |-> FALSE, result |-> NoResult]

\* steps 1 to 7: configuration, state store, target market, feeds, warmup
PipelineStep ==
    /\ startup.main \in {"configure", "state_store", "market", "feeds"}
    /\ startup' = [startup EXCEPT
                       !.main = StepAfter(startup.main),
                       !.state_store = IF startup.main = "state_store"
                                       THEN "open" ELSE @]
    /\ UNCHANGED <<run, paper_trading, max_open_positions, calibrator,
                   forecasts_since_last_calibration, today, outcome, positions,
                   trades, stats, forecasts, venue, pc, pending, cycle, ret,
                   realized, closed_pnl, settled>>

\* a step raises a StartupError: the except clause returns its exit code;
\* the finally clause closes the store only when the context exists
PipelineStepFails(error) ==
    /\ startup.main \in DOMAIN StartupErrors
    /\ error \in StartupErrors[startup.main]
    /\ startup' = [startup EXCEPT
                       !.main = "returned",
                       !.result = error,
                       !.state_store = IF startup.context /\ @ = "open"
                                       THEN "closed" ELSE @]
    /\ UNCHANGED <<run, paper_trading, max_open_positions, calibrator,
                   forecasts_since_last_calibration, today, outcome, positions,
                   trades, stats, forecasts, venue, pc, pending, cycle, ret,
                   realized, closed_pnl, settled>>

\* step 8: the stop event and the coordinator; its thread is started unless
\* in check mode; then the context is built
StartCoordinator ==
    /\ startup.main = "coordinator"
    /\ startup' = [startup EXCEPT
                       !.main = "register_sigint",
                       !.loop = IF startup.check THEN "none" ELSE "started",
                       !.context = TRUE]
    /\ UNCHANGED <<run, paper_trading, max_open_positions, calibrator,
                   forecasts_since_last_calibration, today, outcome, positions,
                   trades, stats, forecasts, venue, pc, pending, cycle, ret,
                   realized, closed_pnl, settled>>

\* step 9: register_shutdown_handlers installs _handler for SIGINT, then for
\* SIGTERM
register_shutdown_handlers ==
    /\ startup.main \in {"register_sigint", "register_sigterm"}
    /\ startup' = [startup EXCEPT
                       !.main = StepAfter(startup.main),
                       !.handlers = @ \cup {IF startup.main = "register_sigint"
                                            THEN "SIGINT" ELSE "SIGTERM"}]
    /\ UNCHANGED <<run, paper_trading, max_open_positions, calibrator,
                   forecasts_since_last_calibration, today, outcome, positions,
                   trades, stats, forecasts, venue, pc, pending, cycle, ret,
                   realized, closed_pnl, settled>>

\* step 10 in check mode: return preflight_ok; the finally clause closes the
\* store
ReturnPreflight ==
    /\ startup.main = "branch"
    /\ startup.check
    /\ startup' = [startup EXCEPT
                       !.main = "returned",
                       !.result = [exit_code |-> 0, reason |-> "preflight_ok"],
                       !.state_store = "closed"]
    /\ UNCHANGED <<run, paper_trading, max_open_positions, calibrator,
                   forecasts_since_last_calibration, today, outcome, positions,
                   trades, stats, forecasts, venue, pc, pending, cycle, ret,
                   realized, closed_pnl, settled>>

\* loop_thread.join() is entered
JoinLoop ==
    /\ startup.main = "branch"
    /\ ~startup.check
    /\ startup' = [startup EXCEPT !.main = "join"]
    /\ UNCHANGED <<run, paper_trading, max_open_positions, calibrator,
                   forecasts_since_last_calibration, today, outcome, positions,
                   trades, stats, forecasts, venue, pc, pending, cycle, ret,
                   realized, closed_pnl, settled>>

\* join returns once the coordinator thread has ended: return
\* graceful_shutdown; the finally clause closes the store
ReturnGraceful ==
    /\ startup.main = "join"
    /\ startup.loop = "stopped"
    /\ startup' = [startup EXCEPT
                       !.main = "returned",
                       !.result = [exit_code |-> 0, reason |-> "graceful_shutdown"],
                       !.state_store = "closed"]
    /\ UNCHANGED <<run, paper_trading, max_open_positions, calibrator,
                   forecasts_since_last_calibration, today, outcome, positions,
                   trades, stats, forecasts, venue, pc, pending, cycle, ret,
                   realized, closed_pnl, settled>>

\* TradingLoopCoordinator.run: the test of the while loop
\* variant of the loop test that does not look at the stop event
CoordinatorTest_ignoring_stop ==
    /\ startup.loop \in {"started", "woken"}
    /\ startup.ticks < MaxTicks
    /\ startup' = [startup EXCEPT !.loop = "waiting", !.ticks = @ + 1]
    /\ UNCHANGED <<run, paper_trading, max_open_positions, calibrator,
                   forecasts_since_last_calibration, today, outcome, positions,
                   trades, stats, forecasts, venue, pc, pending, cycle, ret,
                   realized, closed_pnl, settled>>

CoordinatorTest ==
    /\ startup.loop \in {"started", "woken"}
    /\ startup.stop_event \/ startup.ticks < MaxTicks
    /\ startup' = [startup EXCEPT
                       !.loop = IF startup.stop_event THEN "stopped" ELSE "waiting",
                       !.ticks = IF startup.stop_event THEN @ ELSE @ + 1]
    /\ UNCHANGED <<run, paper_trading, max_open_positions, calibrator,
                   forecasts_since_last_calibration, today, outcome, positions,
                   trades, stats, forecasts, venue, pc, pending, cycle, ret,
                   realized, closed_pnl, settled>>

\* stop_event.wait(timeout) returns, by the event or by the timeout
CoordinatorWakes ==
    /\ startup.loop = "waiting"
    /\ startup' = [startup EXCEPT !.loop = "woken"]
    /\ UNCHANGED <<run, paper_trading, max_open_positions, calibrator,
                   forecasts_since_last_calibration, today, outcome, positions,
                   trades, stats, forecasts, venue, pc, pending, cycle, ret,
                   realized, closed_pnl, settled>>

\* a signal with a registered handler arrives: _handler sets the stop event
ShutdownSignal(sig) ==
    /\ sig \in startup.handlers
    /\ startup' = [startup EXCEPT !.stop_event = TRUE,
                                  !.fired = @ \cup {sig}]
    /\ UNCHANGED <<run, paper_trading, max_open_positions, calibrator,
                   forecasts_since_last_calibration, today, outcome, positions,
                   trades, stats, forecasts, venue, pc, pending, cycle, ret,
                   realized, closed_pnl, settled>>

InitStartup ==
    /\ startup \in {NewStartup(check_) : check_ \in BOOLEAN}
    /\ paper_trading = TRUE
    /\ max_open_positions = Cardinality(Markets) - 1
    /\ InitLearning
    /\ today = 0
    /\ outcome = [m \in Markets |-> "open"]
    /\ positions = [m \in Markets |-> NoPosition]
    /\ trades = <<>>
    /\ stats = [d \in Days |-> IF d = 0 THEN SeedRow(initial_bankroll) ELSE NoStats]
    /\ forecasts = <<>>
    /\ venue = <<>>
    /\ pc = "idle"
    /\ pending = {}
    /\ cycle = IdleCycle
    /\ ret = NoResult
    /\ realized = Zero
    /\ closed_pnl = Zero
    /\ settled = {}
    /\ run = NoRun

MainThread ==
    \/ PipelineStep
    \/ \E error \in UNION {StartupErrors[k] : k \in DOMAIN StartupErrors} :
          PipelineStepFails(error)
    \/ StartCoordinator
    \/ register_shutdown_handlers
    \/ ReturnPreflight
    \/ JoinLoop
    \/ ReturnGraceful

CoordinatorThread ==
    \/ CoordinatorTest
    \/ CoordinatorWakes

NextStartup ==
    \/ MainThread
    \/ CoordinatorThread
    \/ \E sig \in Signals : ShutdownSignal(sig)

\* both threads are scheduled for as long as they can run
SpecStartup ==
    /\ InitStartup
    /\ [][NextStartup]_vars
    /\ WF_vars(MainThread)
    /\ WF_vars(CoordinatorThread)

(***************************************************************************)
(* Concurrent tasks: execute and run_resolution_cycle as asyncio tasks on  *)
(* one event loop.  execute has no await in its body; the cycle's only     *)
(* suspension point is the await of the oracle's answer, between its read  *)
(* of the market ids and the loop over the resolved markets                *)
(* (process_resolution is synchronous, so nothing is awaited after it)     *)
(***************************************************************************)
\* run_resolution_cycle up to its await: the market ids are read and the
\* oracle is asked; seen is the number of trades stored at that moment
CycleReadsMarkets ==
    /\ pc = "idle"
    /\ LET market_ids == get_open_positions \cup get_unresolved_forecasts
       IN  /\ market_ids # {}
           /\ pc' = "awaiting"
           /\ pending' = market_ids
           /\ cycle' = [checked |-> Cardinality(market_ids), batch |-> {},
                        forwarded |-> {}, total_pnl |-> Zero,
                        seen |-> Len(trades)]
           /\ ret' = NoResult
    /\ UNCHANGED <<run, paper_trading, max_open_positions, startup, calibrator,
                   forecasts_since_last_calibration, today, outcome, positions, trades, stats,
                   forecasts, venue, realized, closed_pnl, settled>>

\* the sum of a field over the trades after the first seen trades that are
\* for market m
RECURSIVE TradedSince(_, _, _)
TradedSince(seen, m, field) ==
    IF seen >= Len(trades) THEN Zero
    ELSE Add(IF trades[seen + 1].market_id = m THEN trades[seen + 1][field]
             ELSE Zero,
             TradedSince(seen + 1, m, field))

\* variant of the resumption that writes back the positions as they were
\* when the market ids were read
CycleResumes_from_stale_positions ==
    /\ pc = "awaiting"
    /\ LET resolved_markets == {m \in pending : outcome[m] # "open"}
       IN  IF resolved_markets = {}
           THEN /\ ret' = CycleReturn(cycle.checked, 0, Zero)
                /\ pc' = "idle"
                /\ pending' = {}
                /\ cycle' = IdleCycle
                /\ UNCHANGED positions
           ELSE /\ ret' = NoResult
                /\ pc' = "resolving"
                /\ pending' = resolved_markets
                /\ cycle' = [cycle EXCEPT !.batch = resolved_markets]
                /\ positions' = [m \in Markets |->
                       IF positions[m] = NoPosition THEN NoPosition
                       ELSE [positions[m] EXCEPT
                                !.num_shares =
                                    Sub(@, TradedSince(cycle.seen, m, "num_shares")),
                                !.amount_usd =
                                    Sub(@, TradedSince(cycle.seen, m, "amount_usd"))]]
    /\ UNCHANGED <<run, paper_trading, max_open_positions, startup, calibrator,
                   forecasts_since_last_calibration, today, outcome, trades, stats,
                   forecasts, venue, realized, closed_pnl, settled>>

\* the oracle's answer arrives and the cycle resumes
CycleResumes ==
    /\ pc = "awaiting"
    /\ LET resolved_markets == {m \in pending : outcome[m] # "open"}
       IN  IF resolved_markets = {}
           THEN /\ ret' = CycleReturn(cycle.checked, 0, Zero)
                /\ pc' = "idle"
                /\ pending' = {}
                /\ cycle' = IdleCycle
           ELSE /\ ret' = NoResult
                /\ pc' = "resolving"
                /\ pending' = resolved_markets
                /\ cycle' = [cycle EXCEPT !.batch = resolved_markets]
    /\ UNCHANGED <<run, paper_trading, max_open_positions, startup, calibrator,
                   forecasts_since_last_calibration, today, outcome, positions, trades, stats,
                   forecasts, venue, realized, closed_pnl, settled>>

\* an execute task runs while the cycle task is suspended
ExecuteWhileCycleWaits(m, cal, price, confidence, liquidity) ==
    /\ pc = "awaiting"
    /\ PaperExecuteBody(m, cal, price, confidence, liquidity)

InitTasks ==
    /\ paper_trading = TRUE
    /\ max_open_positions = Cardinality(Markets)
    /\ startup = NoStartup
    /\ InitLearning
    /\ today = 0
    /\ outcome = [m \in Markets |-> "open"]
    /\ positions = [m \in Markets |-> NoPosition]
    /\ trades = <<>>
    /\ stats = [d \in Days |-> IF d = 0 THEN SeedRow(initial_bankroll) ELSE NoStats]
    /\ forecasts = <<>>
    /\ venue = <<>>
    /\ pc = "idle"
    /\ pending = {}
    /\ cycle = IdleCycle
    /\ ret = NoResult
    /\ realized = Zero
    /\ closed_pnl = Zero
    /\ settled = {}
    /\ run = NoRun

NextTasks ==
    \/ \E m \in Markets, cal \in Probs, price \in Prices,
          confidence \in Confidences, liquidity \in Liquidities :
          PaperExecute(m, cal, price, confidence, liquidity)
    \/ \E m \in Markets, cal \in Probs, price \in Prices,
          confidence \in Confidences, liquidity \in Liquidities :
          ExecuteWhileCycleWaits(m, cal, price, confidence, liquidity)
    \/ CycleReadsMarkets
    \/ CycleResumes
    \/ \E m \in Markets : ResolveMarket(m)
    \/ EndCycle
    \/ \E m \in Markets, cal \in Probs : RecordForecast(m, cal)
    \/ \E m \in Markets, o \in {"YES", "NO"} : MarketResolves(m, o)

SpecTasks ==
    InitTasks /\ [][NextTasks]_vars

(***************************************************************************)
(* The executors on markets priced at the ends of [0,1], which analyze     *)
(* accepts                                                                 *)
(***************************************************************************)
BoundaryPrices ==
    {Zero, R(1, 5), R(4, 5), One}

NextBoundary ==
    \/ \E m \in Markets, cal \in Probs, price \in BoundaryPrices,
          confidence \in Confidences, liquidity \in Liquidities :
          PaperExecute(m, cal, price, confidence, liquidity)
    \/ \E m \in Markets, cal \in Probs, price \in BoundaryPrices,
          confidence \in Confidences, liquidity \in Liquidities,
          reply \in LiveReplies :
          LiveExecute(m, cal, price, confidence, liquidity, reply)
    \/ StartCycle
    \/ \E m \in Markets : ResolveMarket(m)
    \/ EndCycle
    \/ \E m \in Markets, o \in {"YES", "NO"} : MarketResolves(m, o)

SpecBoundary ==
    InitExec /\ [][NextBoundary]_vars

(***************************************************************************)
(* Properties                                                              *)
(***************************************************************************)
\* C1: bankroll conservation.  In every state the current bankroll (the
\* ending_bankroll of the most recent DailyStats row) equals the seeded
\* bankroll plus the sum of the pnl returned by all settlements so far; hence
\* a settlement moves it by exactly its pnl, whether it updates the day's row
\* or creates it, and execute never moves it.
BankrollConservation ==
    get_current_bankroll = Add(initial_bankroll, realized)

\* a settlement with non-zero pnl has just created the row of a new day, after
\* an earlier settlement updated the seeded row
BankrollConservationWitness ==
    /\ ret.kind = "pnl"
    /\ ret.pnl # Zero
    /\ today = 1
    /\ stats[1] # NoStats
    /\ stats[1].trades_executed = 1
    /\ stats[0].net_pnl # Zero

\* C4: every stored position has num_shares = 0 exactly when amount_usd = 0.
SharesZeroIffCostZero ==
    \A m \in Markets :
        positions[m] # NoPosition =>
            (positions[m].num_shares = Zero <=> positions[m].amount_usd = Zero)

\* one position has been closed by a settlement while another one is open
SharesZeroIffCostZeroWitness ==
    /\ \E m \in Markets : /\ positions[m] # NoPosition
                          /\ positions[m].num_shares = Zero
                          /\ m \in settled
    /\ \E m \in Markets : /\ positions[m] # NoPosition
                          /\ positions[m].num_shares.n > 0
                          /\ positions[m].amount_usd.n > 0

\* C7: with the paper executor the number of open positions (num_shares > 0)
\* never exceeds max_open_positions.
OpenPositionsBounded ==
    Cardinality({m \in Markets : /\ positions[m] # NoPosition
                                 /\ positions[m].num_shares.n > 0})
        <= max_open_positions

\* an execute issued at the limit has just been rejected for the position count
OpenPositionsBoundedWitness ==
    /\ paper_trading
    /\ Cardinality({m \in Markets : /\ positions[m] # NoPosition
                                    /\ positions[m].num_shares.n > 0})
           = max_open_positions
    /\ ret.kind = "result"
    /\ "max_open_positions" \in ret.violations

\* C2 (as stated): once a market's position has been settled, every later
\* settlement step for that market returns pnl = 0 and leaves its Position and
\* all DailyStats rows unchanged.
SettlementIdempotent ==
    [][\A m \in settled :
          (ret'.kind = "pnl" /\ ret'.market = m) =>
              /\ ret'.pnl = Zero
              /\ positions'[m] = positions[m]
              /\ stats' = stats]_vars

\* C2 (amended): the same, for a settled market whose position is still closed
\* (num_shares = 0) when the oracle reports it again; a position that execute
\* opened on the market after its settlement is settled like any open position.
SettlementIdempotentWhileClosed ==
    [][\A m \in settled :
          (/\ ret'.kind = "pnl"
           /\ ret'.market = m
           /\ positions[m].num_shares = Zero) =>
              /\ ret'.pnl = Zero
              /\ positions'[m] = positions[m]
              /\ stats' = stats]_vars

\* a settled market, its position still closed, has just been processed again
SettlementIdempotentWitness ==
    /\ ret.kind = "pnl"
    /\ ret.market \in settled
    /\ ret.pnl = Zero
    /\ positions[ret.market].num_shares = Zero

\* C3: a settlement step on an open position returns num_shares - amount_usd
\* when the position's side matches the outcome and -amount_usd otherwise; on
\* a market with no position or a closed one it returns 0 and writes no
\* position.
SettlementPayoff ==
    [][ret'.kind = "pnl" =>
          LET m == ret'.market
              position == positions[m]
              open == position # NoPosition /\ position.num_shares.n > 0
              matches == \/ position.direction = "BUY_YES" /\ outcome[m] = "YES"
                         \/ position.direction = "BUY_NO" /\ outcome[m] = "NO"
          IN  IF open
              THEN ret'.pnl = IF matches
                              THEN Sub(position.num_shares, position.amount_usd)
                              ELSE Neg(position.amount_usd)
              ELSE ret'.pnl = Zero /\ positions' = positions]_vars

\* a BUY_NO position has just been settled as a win
SettlementPayoffWitness ==
    /\ ret.kind = "pnl"
    /\ ret.pnl.n > 0
    /\ positions[ret.market].direction = "BUY_NO"
    /\ outcome[ret.market] = "NO"

DailyLossLimitEnforced ==
    [][\A m \in Markets, cal \in Probs, price \in Prices,
          confidence \in Confidences, liquidity \in Liquidities :
          LET edge == analyze(cal, price, confidence, liquidity)
              bankroll == get_current_bankroll
              size == calculate(bankroll, cal, price, edge.direction)
              row == get_daily_stats(today)
              reaches == /\ edge.recommended_action # "SKIP"
                         /\ bankroll.n > 0
                         /\ size.amount_usd.n > 0
              loss_hit == /\ row # NoStats
                          /\ row.net_pnl.n < 0
                          /\ Le(max_daily_loss, Div(RAbs(row.net_pnl), bankroll))
          IN  (/\ reaches
               /\ loss_hit
               /\ PaperExecute(m, cal, price, confidence, liquidity)) =>
                  /\ ret'.kind = "result"
                  /\ "daily_loss" \in ret'.violations
                  /\ positions' = positions]_vars

\* C8 (as stated): with the live executor the orders accepted by the venue
\* and the persisted trades correspond one to one, each trade PENDING.
LiveNoPartialState ==
    ~paper_trading =>
        /\ Len(venue) = Len(trades)
        /\ \A i \in 1 .. Len(trades) :
              /\ trades[i].status = "PENDING"
              /\ trades[i].market_id = venue[i].market_id

\* C9 (as stated): the pnl of the positions zeroed by settlement is the pnl
\* recorded in the DailyStats rows, also after a failed settlement.
NoHalfSettledMarket ==
    LET recorded[d \in Days] ==
            LET own == IF stats[d] # NoStats THEN stats[d].net_pnl ELSE Zero
            IN  IF d = 0 THEN own ELSE Add(recorded[d - 1], own)
    IN  closed_pnl = recorded[MaxOf(Days)]

\* C10 (as stated): when a settlement fails, every other market of the
\* cycle's batch has been settled and forwarded to the feedback loop by the
\* time the cycle ends.
BatchSurvivesFailure ==
    ret.kind = "cycle_raised" =>
        (ret.batch \ {ret.market}) \subseteq ret.forwarded

\* C11 (as stated): a cycle whose oracle query fails does not raise and
\* returns checked = 0, resolved = 0 and pnl = 0.
OracleFailureYieldsZero ==
    ret.kind = "oracle_failure" =>
        /\ ~ret.raised
        /\ ret.checked = 0
        /\ ret.resolved = 0
        /\ ret.pnl = Zero

\* C12: in a trading cycle every execute comes after the cycle's resolution
\* cycle has returned or failed, with the bankroll that was read after it (the
\* store's current bankroll at the time of the execute), and no step of the
\* resolution cycle is taken once the cycle's trading has started.
ResolveBeforeOpen ==
    [][/\ ret'.kind \in {"result", "null", "raised"} =>
             /\ run.at = "trade"
             /\ run.resolution \in {"returned", "failed"}
             /\ run.bankroll = get_current_bankroll
       /\ (pc' = "resolving" \/ ret'.kind \in {"pnl", "cycle", "cycle_raised",
                                               "oracle_failure"}) =>
             /\ run.at = "resolve"
             /\ run.resolution = "pending"]_vars

\* a trade has just been executed in a cycle whose resolution cycle settled a
\* position
ResolveBeforeOpenWitness ==
    /\ run.at = "trade"
    /\ run.resolution = "returned"
    /\ run.bankroll # initial_bankroll
    /\ ret.kind = "result"
    /\ ret.success

\* C13 (as stated): a forecast record that has an outcome keeps its outcome
\* and its Brier score through every later step, and no record is ever
\* removed from the table.
ForecastMutatedOnce ==
    [][/\ Len(forecasts') >= Len(forecasts)
       /\ \A i \in 1 .. Len(forecasts) :
              /\ forecasts'[i].market_id = forecasts[i].market_id
              /\ forecasts[i].outcome # -1 =>
                     /\ forecasts'[i].outcome = forecasts[i].outcome
                     /\ forecasts'[i].brier_score = forecasts[i].brier_score]_vars

\* C14: a paper execute that passes the risk check appends exactly one FILLED
\* trade at the market's current price and writes the position of that
\* market only: an open position grows by the trade's shares and amount and
\* its average entry price becomes amount / shares, otherwise the position
\* is created from the trade at the trade's price.
PaperFillUpsertsOnePosition ==
    [][(paper_trading /\ ret'.kind = "result" /\ ret'.success) =>
          /\ Len(trades') = Len(trades) + 1
          /\ SubSeq(trades', 1, Len(trades)) = trades
          /\ LET trade == trades'[Len(trades')]
                 m == trade.market_id
                 old == positions[m]
                 new == positions'[m]
             IN  /\ trade.status = "FILLED"
                 /\ new.current_price = trade.entry_price
                 /\ \A o \in Markets \ {m} : positions'[o] = positions[o]
                 /\ IF IsOpen(old)
                    THEN /\ new.num_shares = Add(old.num_shares, trade.num_shares)
                         /\ new.amount_usd = Add(old.amount_usd, trade.amount_usd)
                         /\ new.avg_entry_price = Div(new.amount_usd, new.num_shares)
                    ELSE /\ new.num_shares = trade.num_shares
                         /\ new.amount_usd = trade.amount_usd
                         /\ new.avg_entry_price = trade.entry_price]_vars

\* a second paper trade at another price has just been added to the open
\* position of its market
PaperFillUpsertsOnePositionWitness ==
    /\ paper_trading
    /\ ret.kind = "result" /\ ret.success
    /\ Len(trades) = 2
    /\ trades[1].market_id = trades[2].market_id
    /\ trades[1].entry_price # trades[2].entry_price
    /\ positions[trades[2].market_id].num_shares =
           Add(trades[1].num_shares, trades[2].num_shares)
    /\ positions[trades[2].market_id].avg_entry_price # trades[2].entry_price

\* C15: an execute whose edge analysis recommends SKIP returns None without
\* calling the sizer or the risk check, an execute whose size is 0 returns
\* None without calling the risk check, and neither writes a trade, a
\* position, daily stats or an order.
SkipAndZeroSizeAreNoOps ==
    [][ret'.kind \in {"null", "result", "raised"} =>
          \A m \in Markets, cal \in Probs, price \in ExecPrices,
             confidence \in Confidences, liquidity \in Liquidities :
             LET edge == analyze(cal, price, confidence, liquidity)
                 size == calculate(get_current_bankroll, cal, price, edge.direction)
                 skipped == edge.recommended_action = "SKIP"
                 executed == \/ PaperExecute(m, cal, price, confidence, liquidity)
                             \/ \E reply \in LiveReplies :
                                   LiveExecute(m, cal, price, confidence, liquidity, reply)
             IN  (/\ skipped \/ size.amount_usd = Zero
                  /\ executed) =>
                     /\ ret' = [kind |-> "null",
                                invoked |-> IF skipped THEN {} ELSE {"sizer"}]
                     /\ UNCHANGED <<trades, positions, stats, venue>>]_vars

\* an execute has just returned None because the sizer answered 0: the
\* bankroll has shrunk below the one at which the smallest edge sizes min_bet
SkipAndZeroSizeAreNoOpsWitness ==
    /\ ret = [kind |-> "null", invoked |-> {"sizer"}]
    /\ Lt(get_current_bankroll, initial_bankroll)
    /\ \E price \in ExecPrices :
           /\ analyze(R(1, 2), price, R(3, 4), 100000).recommended_action = "TRADE"
           /\ calculate(get_current_bankroll, R(1, 2), price,
                        analyze(R(1, 2), price, R(3, 4), 100000).direction).amount_usd = Zero

\* C16: RiskManager.check reports the daily-loss limit exactly when the loss
\* is at least max_daily_loss x bankroll, the position-count limit exactly
\* when the open positions number at least max_open_positions, and the
\* exposure limit exactly when the open position of the market plus the
\* trade is strictly more than max_single_market_exposure x bankroll; every
\* limit is reported independently of the others and passed is true exactly
\* when none is reported.
RiskLimitBoundaries ==
    ret.kind = "risk_check" =>
        LET open == {m \in Markets : positions[m] # NoPosition
                                      /\ positions[m].num_shares.n > 0}
            loss == Neg(ret.daily_pnl)
            exposure == Add(positions[ret.market_id].amount_usd, ret.amount_usd)
        IN  /\ "daily_loss" \in ret.violations <=>
                   /\ loss.n > 0
                   /\ Le(Mul(max_daily_loss, ret.bankroll), loss)
            /\ "max_open_positions" \in ret.violations <=>
                   Cardinality(open) >= max_open_positions
            /\ "single_market_exposure" \in ret.violations <=>
                   /\ ret.market_id \in open
                   /\ Lt(Mul(max_single_market_exposure, ret.bankroll), exposure)
            /\ ret.violations \subseteq
                   {"daily_loss", "max_open_positions", "single_market_exposure"}
            /\ ret.passed <=> ret.violations = {}

\* a call at all three limits at once: the exposure equal to its limit is
\* not reported, the loss and the position count equal to theirs are
RiskLimitBoundariesWitness ==
    /\ ret.kind = "risk_check"
    /\ IsOpen(positions[ret.market_id])
    /\ Add(positions[ret.market_id].amount_usd, ret.amount_usd) =
           Mul(max_single_market_exposure, ret.bankroll)
    /\ Neg(ret.daily_pnl) = Mul(max_daily_loss, ret.bankroll)
    /\ Cardinality(get_open_positions) = max_open_positions
    /\ ret.violations = {"daily_loss", "max_open_positions"}
    /\ ~ret.passed

\* C17: every _resolve_market call of a cycle is for a market of the batch
\* not yet forwarded, and forwards its outcome to process_resolution once:
\* all forecasts of the market carry the oracle's outcome afterwards and the
\* category's counter has moved by one resolution if the market has a
\* forecast.  Without an open position the call returns 0 and writes no
\* position and no daily stats.  The cycle returns once every market of the
\* batch has been forwarded, and counts them all as resolved.
OutcomeForwardedOncePerMarket ==
    [][/\ ret'.kind = "pnl" =>
             LET m == ret'.market
                 outcome_int == IF outcome[m] = "YES" THEN 1 ELSE 0
                 category == market_type(m)
                 before == forecasts_since_last_calibration[category]
             IN  /\ m \in cycle.batch
                 /\ m \notin cycle.forwarded
                 /\ cycle'.forwarded = cycle.forwarded \cup {m}
                 /\ \A i \in ForecastsOf(forecasts', m) :
                        /\ forecasts'[i].resolved
                        /\ forecasts'[i].outcome = outcome_int
                 /\ forecasts_since_last_calibration'[category] =
                        IF ForecastsOf(forecasts, m) = {} THEN before
                        ELSE (before + 1) % RECALIBRATION_THRESHOLD
                 /\ ~IsOpen(positions[m]) =>
                        /\ ret'.pnl = Zero
                        /\ positions' = positions
                        /\ stats' = stats
       /\ (pc = "resolving" /\ ret'.kind = "cycle") =>
             /\ cycle.forwarded = cycle.batch
             /\ ret'.resolved = Cardinality(cycle.batch)]_vars

\* a market with a forecast and no position has just been resolved: its
\* forecast is scored and the call returned 0
OutcomeForwardedOncePerMarketWitness ==
    /\ ret.kind = "pnl"
    /\ ret.pnl = Zero
    /\ positions[ret.market] = NoPosition
    /\ ret.market \in cycle.forwarded
    /\ ForecastsOf(forecasts, ret.market) # {}
    /\ \A i \in ForecastsOf(forecasts, ret.market) : forecasts[i].resolved
    /\ forecasts_since_last_calibration[market_type(ret.market)] = 1

\* C18: a successful process_resolution moves the counter of the forecast's
\* category by one, from 9 back to 0 together with the recalibration-due
\* signal and at no other count, and leaves the other categories' counters
\* alone; no other step changes a counter; every counter stays within 0..9.
RecalibrationCounter ==
    [][/\ \A c \in Categories : forecasts_since_last_calibration'[c] \in 0 .. 9
       /\ IF ret'.kind = "resolution" /\ ret'.success
          THEN LET c == market_type(ret'.market)
                   before == forecasts_since_last_calibration[c]
                   after == forecasts_since_last_calibration'[c]
               IN  /\ after = IF before = 9 THEN 0 ELSE before + 1
                   /\ ret'.recalibration_due <=> before = 9
                   /\ \A o \in Categories \ {c} :
                          forecasts_since_last_calibration'[o] =
                              forecasts_since_last_calibration[o]
          ELSE forecasts_since_last_calibration' =
                   forecasts_since_last_calibration]_vars

\* the tenth resolution of one category has just been signalled and its
\* counter reset while the other category's counter stands at 3
RecalibrationCounterWitness ==
    /\ ret.kind = "resolution" /\ ret.success
    /\ ret.recalibration_due
    /\ forecasts_since_last_calibration[market_type(ret.market)] = 0
    /\ \E o \in Categories \ {market_type(ret.market)} :
           forecasts_since_last_calibration[o] = 3

\* C19: process_resolution for a market without a forecast returns
\* success = false with the error "Forecast not found", raises nothing,
\* and changes no forecast and no counter.
ResolutionNotFoundIsReported ==
    [][\A m \in Markets, yes \in BOOLEAN :
          (ProcessResolution(m, yes) /\ ForecastsOf(forecasts, m) = {}) =>
              /\ ret' = [kind |-> "resolution", market |-> m, success |-> FALSE,
                         error |-> "Forecast not found"]
              /\ forecasts' = forecasts
              /\ forecasts_since_last_calibration' =
                     forecasts_since_last_calibration]_vars

\* a resolution has just been refused for a market without a forecast while
\* the other market has unresolved forecasts
ResolutionNotFoundIsReportedWitness ==
    /\ ret.kind = "resolution" /\ ~ret.success
    /\ ForecastsOf(forecasts, ret.market) = {}
    /\ forecasts # <<>>
    /\ \A i \in 1 .. Len(forecasts) : ~forecasts[i].resolved

\* C20: a calibrate call that finds at least 50 samples fits a new curve
\* exactly when the category has no cached curve or the sample count differs
\* from the count recorded at the last fit, and then records the new count;
\* otherwise it keeps the cached curve and count.  No call changes the curve
\* or count of another category, and no other step changes any of them.
CurveCacheInvalidation ==
    [][IF ret'.kind = "calibrated"
       THEN LET c == ret'.market_type
                n == ret'.historical_samples
                stale == \/ calibration_curves[c] = NoCurve
                         \/ last_calibration_sample_count[c] # n
            IN  /\ n >= MIN_SAMPLES_FOR_CALIBRATION =>
                       /\ ret'.rebuilt <=> stale
                       /\ n = history_samples[c]
                       /\ IF stale
                          THEN /\ calibration_curves'[c].kind = "curve"
                               /\ calibration_curves'[c].fitted_on = n
                               /\ last_calibration_sample_count'[c] = n
                          ELSE /\ calibration_curves'[c] = calibration_curves[c]
                               /\ last_calibration_sample_count'[c] =
                                      last_calibration_sample_count[c]
                /\ n < MIN_SAMPLES_FOR_CALIBRATION =>
                       /\ ~ret'.rebuilt
                       /\ calibration_curves' = calibration_curves
                       /\ last_calibration_sample_count' =
                              last_calibration_sample_count
                /\ \A o \in Categories \ {c} :
                       /\ calibration_curves'[o] = calibration_curves[o]
                       /\ last_calibration_sample_count'[o] =
                              last_calibration_sample_count[o]
       ELSE /\ calibration_curves' = calibration_curves
            /\ last_calibration_sample_count' = last_calibration_sample_count]_vars

\* a category's curve has just been fitted again after its history grew,
\* while the other category keeps the curve fitted on its 50 samples
CurveCacheInvalidationWitness ==
    /\ ret.kind = "calibrated" /\ ret.rebuilt
    /\ ret.historical_samples = MIN_SAMPLES_FOR_CALIBRATION + 1
    /\ calibration_curves[ret.market_type].fitted_on = MIN_SAMPLES_FOR_CALIBRATION + 1
    /\ \E o \in Categories \ {ret.market_type} :
           /\ calibration_curves[o] = build_calibration_curve(MIN_SAMPLES_FOR_CALIBRATION)
           /\ last_calibration_sample_count[o] = MIN_SAMPLES_FOR_CALIBRATION
           /\ history_samples[o] = MIN_SAMPLES_FOR_CALIBRATION + 1

\* C21 (as stated): a calibrate call that finds fewer than 50 resolved
\* samples returns the raw probability unchanged, with method "identity".
IdentityBelowMinimumSamples ==
    (ret.kind = "calibrated" /\ ret.historical_samples < MIN_SAMPLES_FOR_CALIBRATION) =>
        /\ ret.calibration_method = "identity"
        /\ ret.calibrated = ret.raw

\* C22: for a positive bankroll and probabilities inside (0,1) the sizer
\* returns the least of bankroll x Kelly x kelly_fraction, bankroll x
\* max_bankroll_pct and max_bet when that is at least min_bet, and otherwise
\* an amount of 0 with 0 shares; the amount is never negative, never between
\* 0 and min_bet, never above either cap, and 0 when the probability of the
\* side bought does not exceed its price.
SizerAmountWithinLimits ==
    ret.kind = "size" =>
        LET no == ret.direction = "BUY_NO"
            p == IF no THEN Sub(One, ret.our_prob) ELSE ret.our_prob
            market_p == IF no THEN Sub(One, ret.market_prob) ELSE ret.market_prob
            kelly == IF Le(R(99, 100), market_p) THEN Zero
                     ELSE Div(Sub(p, market_p), Sub(One, market_p))
            from_pct == Mul(ret.bankroll, max_bankroll_pct)
            target == RMin(RMin(Mul(ret.bankroll, Mul(kelly, kelly_fraction)),
                                from_pct), max_bet)
            amount == ret.size.amount_usd
        IN  /\ IF Le(min_bet, target)
               THEN /\ amount = target
                    /\ Mul(ret.size.num_shares, market_p) = amount
               ELSE /\ amount = Zero
                    /\ ret.size.num_shares = Zero
            /\ amount.n >= 0
            /\ amount = Zero \/ Le(min_bet, amount)
            /\ Le(amount, max_bet) /\ Le(amount, from_pct)
            /\ Le(p, market_p) => amount = Zero

\* a call whose Kelly size is positive and below min_bet has returned 0
SizerAmountWithinLimitsWitness ==
    /\ ret.kind = "size"
    /\ ret.size.kelly_fraction.n > 0
    /\ Lt(Mul(ret.bankroll, Mul(ret.size.kelly_fraction, kelly_fraction)), min_bet)
    /\ ret.size.amount_usd = Zero
    /\ ret.size.num_shares = Zero

\* C23: once a registered handler has fired the stop event stays set; in
\* non-check mode the coordinator then stops and run_startup returns exit
\* code 0 with reason graceful_shutdown and the state store closed, and it
\* never returns graceful_shutdown with the store open.  In check mode the
\* coordinator thread is never started and a run_startup that reaches the
\* end of the pipeline returns exit code 0 with reason preflight_ok.
GracefulShutdown ==
    /\ [](startup.fired # {} => startup.stop_event)
    /\ []((startup.main = "returned" /\ startup.result.exit_code = 0) =>
              /\ startup.state_store = "closed"
              /\ startup.result.reason =
                     IF startup.check THEN "preflight_ok" ELSE "graceful_shutdown"
              /\ ~startup.check => startup.loop = "stopped")
    /\ [](startup.check => startup.loop = "none")
    /\ [](startup.check /\ startup.main = "branch" =>
              <>(startup.result = [exit_code |-> 0, reason |-> "preflight_ok"]))
    /\ (~startup.check /\ startup.fired # {}) ~>
           (/\ startup.loop = "stopped"
            /\ startup.result = [exit_code |-> 0, reason |-> "graceful_shutdown"]
            /\ startup.state_store = "closed")

\* SIGTERM has fired while the main thread waited in join, the coordinator
\* has stopped and run_startup has returned graceful_shutdown
GracefulShutdownWitness ==
    /\ ~startup.check
    /\ startup.fired = {"SIGTERM"}
    /\ startup.loop = "stopped"
    /\ startup.main = "returned"
    /\ startup.result = [exit_code |-> 0, reason |-> "graceful_shutdown"]
    /\ startup.state_store = "closed"

\* C24: an execute that runs while a resolution cycle is suspended, and
\* two executes on one market, leave what a serial order leaves: (1) the
\* position of a market not settled yet holds the shares and the cost of
\* every accepted trade on it; (2) when the cycle resumes after executes on
\* markets it covers, the market ids it read are the ones it would read now,
\* so the run is the serial order executes-then-cycle; (3) a settlement pays
\* on the position as it is when it is zeroed and closes it; (4) a market
\* whose position is closed is not paid again.
ConcurrentTasksSerialize ==
    /\ [](\A m \in Markets \ settled :
             /\ (IF positions[m] = NoPosition THEN Zero
                 ELSE positions[m].num_shares) = TradedSince(0, m, "num_shares")
             /\ (IF positions[m] = NoPosition THEN Zero
                 ELSE positions[m].amount_usd) = TradedSince(0, m, "amount_usd"))
    /\ [][(pc = "awaiting" /\ pc' # "awaiting" /\
            \A i \in cycle.seen + 1 .. Len(trades) : trades[i].market_id \in pending)
              => pending = get_open_positions \cup get_unresolved_forecasts]_vars
    /\ [][ret'.kind = "pnl" =>
            LET m == ret'.market
            IN  IF IsOpen(positions[m])
                THEN /\ ret'.pnl = SettlementPnl(positions[m], outcome[m] = "YES")
                     /\ positions'[m] = ClosedPosition(positions[m])
                     /\ m \notin pending'
                ELSE /\ ret'.pnl = Zero
                     /\ positions' = positions /\ stats' = stats]_vars

\* a trade on a covered market was accepted while the cycle was suspended,
\* and the cycle has then settled that market with the trade's shares in it
ConcurrentTasksSerializeWitness ==
    /\ pc = "resolving"
    /\ cycle.seen < Len(trades)
    /\ cycle.seen > 0
    /\ ret.kind = "pnl"
    /\ ret.pnl # Zero
    /\ trades[Len(trades)].market_id = ret.market
    /\ trades[1].market_id = ret.market

\* C25 (as stated): a successful execute on a market that has an open
\* position leaves the position's direction as it was, and the trade it
\* stores is in that direction.
PositionKeepsDirection ==
    [][(ret'.kind = "result" /\ ret'.success /\ Len(trades') = Len(trades) + 1) =>
          LET m == trades'[Len(trades')].market_id
          IN  (trades'[Len(trades')].status = "FILLED" /\ IsOpen(positions[m])) =>
                 /\ positions'[m].direction = positions[m].direction
                 /\ trades'[Len(trades')].direction = positions[m].direction]_vars

\* C30 (as stated): every open position has avg_entry_price x num_shares
\* equal to amount_usd.
AvgEntryPriceIsCostPerShare ==
    \A m \in Markets :
        IsOpen(positions[m]) =>
            Mul(positions[m].avg_entry_price, positions[m].num_shares)
                = positions[m].amount_usd

\* C26 (as stated): once a live order for a market has been accepted, the
\* market is among the open positions that the next risk check reads, with
\* the order's amount in its exposure.
LiveOrderVisibleToRisk ==
    (~paper_trading /\ ret.kind = "result" /\ ret.success) =>
        LET order == trades[Len(trades)]
        IN  /\ order.market_id \in get_open_positions
            /\ Le(order.amount_usd, positions[order.market_id].amount_usd)

\* C27 (as stated): every resolved forecast record stores the Brier score of
\* its own calibrated probability against the outcome stored with it.
BrierFromOwnProbability ==
    \A i \in 1 .. Len(forecasts) :
        forecasts[i].resolved =>
            forecasts[i].brier_score =
                Brier(forecasts[i].calibrated_probability, forecasts[i].outcome)

\* C28 (as stated): in every DailyStats row trades_won <= trades_executed
\* (trades_executed counts every settlement of the day, so it is at least
\* the number of settlements won).
TradesWonWithinExecuted ==
    \A d \in Days :
        stats[d] # NoStats => stats[d].trades_won <= stats[d].trades_executed

\* C29 (as stated): with a positive bankroll the paper executor never
\* raises on an analysis that analyze can produce: a market price of 0 or 1
\* comes back as a return value.
ExecuteNeverRaises ==
    (paper_trading /\ ret.kind = "raised") => get_current_bankroll.n <= 0

====
